---- MODULE Spec2Model ----
(***************************************************************************)
(* Model of the light-triggered capture system (rpiS):                     *)
(*   - LightDetector.detect_light_change   (light_detection_algorithm.py)  *)
(*   - ShutterTriggerSystem.capture_high_quality_photo (shutter_trigger.py)*)
(*   - the settings store written by save_settings (camera_control.py)     *)
(* Python's None is the empty sequence <<>>, a present value v is <<v>>.   *)
(***************************************************************************)
EXTENDS Integers, Sequences, FiniteSets, TLC

VARIABLES
    \* --- LightDetector (light_detection_algorithm.py) ---
    last_brightness,      \* None or the previous brightness sample
    detection_threshold,  \* percent
    detection_interval,   \* ticks of 0.1 s
    monitoring_enabled,   \* the stored value, tested for truth
    last_capture_time,    \* clock reading of update_capture_time
    picam2,               \* None or the handle of the open stream
    handle_seq,           \* number of Picamera2 objects constructed so far
    \* --- ShutterTriggerSystem (shutter_trigger.py) ---
    last_frame,           \* None or the pending first frame
    last_frame_path,      \* None or the path of the pending first frame
    running,              \* cleared by the signal handler
    pc,                   \* where run() is: "while", "iteration", "returned"
    last_cleanup_time,    \* local of run()
    last_stats_time,      \* local of run()
    \* --- environment ---
    Picamera2,            \* is the Picamera2 library importable
    file_exists,          \* does /home/pi/camera_settings.json exist
    settings_file,        \* its content: key -> stored JSON value
    now,                  \* time.time(), in ticks of 0.1 s
    photos,               \* the files in /home/pi/photos
    mtime,                \* their modification times: file -> the number of
                          \* the capture that wrote it last
    capture_seq,          \* number of file names generated so far
    owners,               \* the handles that hold the camera device
    \* --- history of the run (not program state) ---
    detect_call,          \* None or the last detect_light_change call
    capture_call,         \* None or the last capture_high_quality_photo call
    composites,           \* the composites made: first frame, second frame, name
    discarded,            \* frames dropped by a composition error
    pair_open,            \* a first-of-pair capture awaits its second capture
    abandoned,            \* frames that were pending when composition mode
                          \* was switched off in the settings and that the
                          \* engine has not dropped since
    compose_call,         \* None or the last combination of two frames
    cleanup_call,         \* None or the last cleanup_old_photos call
    iterations,           \* number of loop iterations started
    iteration,            \* None or the last loop iteration
    last_sample_time,     \* None or when the last detection frame was taken
    opened_busy,          \* Picamera2() was called while a discarded handle
                          \* still held the device
    camera_call           \* None or the last call on the camera handle

vars == <<last_brightness, detection_threshold, picam2, last_frame,
          last_frame_path, Picamera2, file_exists, settings_file, photos,
          capture_seq, detect_call, capture_call, composites, discarded,
          pair_open, abandoned, compose_call, mtime, cleanup_call,
          detection_interval, monitoring_enabled, last_capture_time, running,
          pc, last_cleanup_time, last_stats_time, now, iterations, iteration,
          last_sample_time, handle_seq, owners, opened_busy, camera_call>>

deviceVars == <<handle_seq, owners, opened_busy>>
cameraVars == <<camera_call>>
detectorVars == <<last_brightness, detect_call>>
configVars == <<detection_interval, monitoring_enabled>>
loopVars == <<last_capture_time, running, pc, last_cleanup_time, last_stats_time,
              now, iterations, iteration, last_sample_time>>
composeVars == <<compose_call>>
cleanupVars == <<cleanup_call>>
engineVars == <<last_frame, last_frame_path, picam2, photos, mtime, capture_seq,
                capture_call, composites, discarded, pair_open>>

\* ------------------------------------------------------------------------
\* Bounds of the model
\* ------------------------------------------------------------------------
\* brightness samples 0..MaxSample are fed to the detector, together with
\* the samples of the documented scenarios (ScenarioSamples)
MaxSample == 6
\* at most MaxCaptures calls of capture_high_quality_photo in a run
MaxCaptures == 3
\* frames of every width and height in 1..MaxDim are combined, together with
\* the frame sizes of the camera (CameraSizes)
MaxDim == 2
\* cleanup_old_photos is called with max_photos in 0..MaxKeep
MaxKeep == 2
\* at most MaxIterations iterations of the loop of run() are started
MaxIterations == 2
\* at most MaxHandles Picamera2 objects are constructed
MaxHandles == 2

None == <<>>
Some(v) == <<v>>

\* ------------------------------------------------------------------------
\* IEEE-754 binary64 arithmetic, as Python floats compute
\*   change_amount / self.last_brightness * 100
\* A positive double is [m |-> 53 bits, most significant first, e |-> k],
\* of value m * 2^k; zero is [m |-> <<>>, e |-> 0].
\* ------------------------------------------------------------------------
MantissaBits == 53
\* the arithmetic works on groups of LimbBits bits
LimbBits == 9
LimbBase == 2 ^ LimbBits

FZero == [m |-> <<>>, e |-> 0]

Zeros(n) == [i \in 1..n |-> 0]

RECURSIVE IntBits(_)
\* the binary digits of a natural number, most significant first (0 is <<>>)
IntBits(n) == IF n = 0 THEN <<>> ELSE Append(IntBits(n \div 2), n % 2)

\* the LimbBits binary digits of a natural number below LimbBase
LimbToBits(v) == [i \in 1..LimbBits |-> (v \div (2 ^ (LimbBits - i))) % 2]

RECURSIVE BitsToInt(_)
\* the number a short bit string stands for
BitsToInt(bits) ==
    IF bits = <<>> THEN 0
    ELSE 2 * BitsToInt(SubSeq(bits, 1, Len(bits) - 1)) + bits[Len(bits)]

\* bits + 1, of the same length; all ones wraps to all zeros
IncBits(bits) ==
    LET zeroAt == {i \in 1..Len(bits) : bits[i] = 0}
        j == IF zeroAt = {} THEN 0
             ELSE CHOOSE i \in zeroAt : \A k \in zeroAt : k <= i
    IN  [i \in 1..Len(bits) |-> IF i < j THEN bits[i] ELSE IF i = j THEN 1 ELSE 0]

\* round-to-nearest, ties-to-even, of the bit string kept followed by a part
\* that was cut off: guard is its first bit, sticky says whether any later
\* bit of it is set
RoundNearestEven(kept, guard, sticky, e) ==
    IF guard = 1 /\ (sticky \/ kept[Len(kept)] = 1)
    THEN LET up == IncBits(kept)
         IN  IF up[1] = 0
             THEN [m |-> <<1>> \o SubSeq(up, 1, Len(up) - 1), e |-> e + 1]
             ELSE [m |-> up, e |-> e]
    ELSE [m |-> kept, e |-> e]

RECURSIVE Normalise(_, _, _)
\* scale D and L by powers of two until L <= D < 2L; k counts the scaling
Normalise(D, L, k) ==
    IF D >= 2 * L THEN Normalise(D, 2 * L, k + 1)
    ELSE IF D < L THEN Normalise(2 * D, L, k - 1)
    ELSE <<D, L, k>>

RECURSIVE DivBits(_, _, _, _)
\* long division: n more groups of quotient bits of r / L (r < L), then the
\* remainder
DivBits(r, L, n, acc) ==
    IF n = 0 THEN <<acc, r>>
    ELSE LET t == r * LimbBase
         IN  DivBits(t % L, L, n - 1, acc \o LimbToBits(t \div L))

\* float(a) / float(b) for integers a >= 0, b > 0
FDiv(a, b) ==
    IF a = 0 THEN FZero
    ELSE LET nrm == Normalise(a, b, 0)
             D == nrm[1]
             L == nrm[2]
             k == nrm[3]
             \* the leading 1 and at least MantissaBits + 1 more bits
             q == DivBits(D - L, L, (MantissaBits \div LimbBits) + 1, <<1>>)
             bits == q[1]
         IN  RoundNearestEven(SubSeq(bits, 1, MantissaBits),
                              bits[MantissaBits + 1],
                              q[2] # 0 \/ \E j \in (MantissaBits + 2)..Len(bits) :
                                              bits[j] = 1,
                              k - (MantissaBits - 1))

RECURSIVE MulBits(_, _, _, _, _)
\* bits * c for a small natural c, group by group from the least significant;
\* Len(bits) is a multiple of LimbBits, n is the number of groups left
MulBits(bits, n, c, carry, acc) ==
    IF n = 0 THEN IntBits(carry) \o acc
    ELSE LET limb == BitsToInt(SubSeq(bits, (n - 1) * LimbBits + 1, n * LimbBits))
             v == limb * c + carry
         IN  MulBits(bits, n - 1, c, v \div LimbBase,
                     LimbToBits(v % LimbBase) \o acc)

\* a bit string without its leading zeros
StripZeros(bits) ==
    LET oneAt == {i \in 1..Len(bits) : bits[i] = 1}
    IN  IF oneAt = {} THEN <<>>
        ELSE SubSeq(bits, CHOOSE i \in oneAt : \A k \in oneAt : i <= k, Len(bits))

\* x * float(c) for a double x >= 0 and an integer c > 0
FMul(x, c) ==
    IF x.m = <<>> THEN FZero
    ELSE LET groups == (Len(x.m) + LimbBits - 1) \div LimbBits
             padded == Zeros(groups * LimbBits - Len(x.m)) \o x.m
             p == StripZeros(MulBits(padded, groups, c, 0, <<>>))
             s == Len(p) - MantissaBits
         IN  IF s <= 0 THEN [m |-> p \o Zeros(-s), e |-> x.e + s]
             ELSE RoundNearestEven(SubSeq(p, 1, MantissaBits),
                                   p[MantissaBits + 1],
                                   \E j \in (MantissaBits + 2)..Len(p) : p[j] = 1,
                                   x.e + s)

\* float(n) for an integer n >= 0
FromInt(n) ==
    IF n = 0 THEN FZero
    ELSE LET b == IntBits(n)
         IN  [m |-> b \o Zeros(MantissaBits - Len(b)), e |-> Len(b) - MantissaBits]

\* a >= b for two bit strings of the same length
BitsGe(a, b) ==
    \/ a = b
    \/ \E i \in 1..Len(a) : a[i] > b[i] /\ \A j \in 1..(i - 1) : a[j] = b[j]

\* x >= t for a double x >= 0 and an integer t
FGe(x, t) ==
    IF t <= 0 THEN TRUE
    ELSE IF x.m = <<>> THEN FALSE
    ELSE LET tb == IntBits(t)
             \* x = m * 2^e and t = tb * 2^0: bring both to the smaller exponent
             xa == IF x.e >= 0 THEN x.m \o Zeros(x.e) ELSE x.m
             ta == IF x.e >= 0 THEN tb ELSE tb \o Zeros(-x.e)
         IN  IF Len(xa) # Len(ta) THEN Len(xa) > Len(ta)
             ELSE BitsGe(xa, ta)

\* ------------------------------------------------------------------------
\* LightDetector.detect_light_change
\* ------------------------------------------------------------------------
\* the absolute floor of the change amount (noise filter)
MinChangeAmount == 5

\* a percent increase that is not scaled by 100 from a baseline of 0
PercentReached_ZeroUnscaled(change_amount, last, threshold) ==
    LET change_percent == IF last > 0 THEN FMul(FDiv(change_amount, last), 100)
                          ELSE FromInt(change_amount)
    IN  FGe(change_percent, threshold)

\* change_percent >= self.detection_threshold, change_percent computed from
\* change_amount and last (both integer-valued floats here)
PercentReached(change_amount, last, threshold) ==
    LET change_percent == IF last > 0 THEN FMul(FDiv(change_amount, last), 100)
                          ELSE FMul(FromInt(change_amount), 100)
    IN  FGe(change_percent, threshold)

\* detect_light_change without the absolute floor
DetectLightChange_NoFloor(last, current, threshold) ==
    IF last = None
    THEN [ret |-> FALSE, last_brightness |-> Some(current)]
    ELSE LET change_amount == current - last[1]
         IN  IF change_amount < 0
             THEN [ret |-> FALSE, last_brightness |-> Some(current)]
             ELSE [ret |-> PercentReached(change_amount, last[1], threshold),
                   last_brightness |-> Some(current)]

\* detect_light_change whose darkening branch keeps the old baseline
DetectLightChange_DarkKeepsLast(last, current, threshold) ==
    IF last = None
    THEN [ret |-> FALSE, last_brightness |-> Some(current)]
    ELSE LET change_amount == current - last[1]
         IN  IF change_amount < 0
             THEN [ret |-> FALSE, last_brightness |-> last]
             ELSE [ret |-> PercentReached(change_amount, last[1], threshold)
                           /\ change_amount >= MinChangeAmount,
                   last_brightness |-> Some(current)]

\* detect_light_change that takes a missing baseline for 0
DetectLightChange_FirstAsZero(last, current, threshold) ==
    LET base == IF last = None THEN 0 ELSE last[1]
        change_amount == current - base
    IN  IF change_amount < 0
        THEN [ret |-> FALSE, last_brightness |-> Some(current)]
        ELSE [ret |-> PercentReached(change_amount, base, threshold)
                      /\ change_amount >= MinChangeAmount,
              last_brightness |-> Some(current)]

\* detect_light_change that moves the baseline only when it fires or darkens
DetectLightChange_MissKeepsLast(last, current, threshold) ==
    IF last = None
    THEN [ret |-> FALSE, last_brightness |-> Some(current)]
    ELSE LET change_amount == current - last[1]
         IN  IF change_amount < 0
             THEN [ret |-> FALSE, last_brightness |-> Some(current)]
             ELSE IF PercentReached(change_amount, last[1], threshold)
                     /\ change_amount >= MinChangeAmount
                  THEN [ret |-> TRUE, last_brightness |-> Some(current)]
                  ELSE [ret |-> FALSE, last_brightness |-> last]

\* the return value and the new last_brightness of
\* detect_light_change(current) called with last_brightness = last
DetectLightChange(last, current, threshold) ==
    IF last = None
    THEN [ret |-> FALSE, last_brightness |-> Some(current)]
    ELSE LET change_amount == current - last[1]
         IN  IF change_amount < 0
             THEN [ret |-> FALSE, last_brightness |-> Some(current)]
             ELSE IF PercentReached(change_amount, last[1], threshold)
                     /\ change_amount >= MinChangeAmount
                  THEN [ret |-> TRUE, last_brightness |-> Some(current)]
                  ELSE [ret |-> FALSE, last_brightness |-> Some(current)]

\* ------------------------------------------------------------------------
\* The settings store: /home/pi/camera_settings.json
\* A stored Python/JSON value is written as Python prints it: the booleans
\* "True" and "False", the strings "'on'", "'false'", ...
\* ------------------------------------------------------------------------
FlagKeys == {"enable_multiple_exposure", "enable_2in1_composition",
             "enable_timestamp"}
CompositionKeys == {"enable_multiple_exposure", "enable_2in1_composition"}
DetectionKeys == {"detection_threshold", "detection_interval",
                  "monitoring_enabled"}
Keys == DetectionKeys \cup FlagKeys

\* values a client may post for a flag, and for the threshold
FlagValues == {"True", "False", "'false'"}
Thresholds == {0, 30, 58, 600}

\* ticks per second: the clock counts tenths of a second
TicksPerSecond == 10

\* camera_control.DEFAULT_SETTINGS (detection_interval 1.0 s)
DEFAULT_SETTINGS ==
    [k \in Keys |->
        IF k = "detection_threshold" THEN Some(30)
        ELSE IF k = "detection_interval" THEN Some(TicksPerSecond)
        ELSE IF k = "monitoring_enabled" THEN Some("True")
        ELSE Some("False")]

\* the dict load_camera_settings returns when the file does not exist
\* (it has no detection keys)
TriggerDefaults ==
    [k \in Keys |-> IF k \in DetectionKeys THEN None ELSE Some("False")]

\* the empty dict {}
EmptyDict == [k \in Keys |-> None]

\* dict.get(key, default)
Get(settings, key, default) ==
    IF settings[key] = None THEN default ELSE settings[key][1]

\* Python truth value of a stored value: False is falsy, True and every
\* non-empty string are truthy
Truthy(v) == v # "False"

\* Python's  a or b
PyOr(a, b) == IF Truthy(a) THEN a ELSE b

\* value in (True, 'True', 'true', 'on')
InTruthySpellings(v) == v \in {"True", "'True'", "'true'", "'on'"}

\* camera_control.load_settings: missing keys get their defaults, the flags
\* are normalised to booleans
ControlLoadSettings ==
    IF file_exists
    THEN [k \in Keys |->
            LET v == IF settings_file[k] = None THEN DEFAULT_SETTINGS[k]
                     ELSE settings_file[k]
            IN  IF k \in FlagKeys
                THEN Some(IF InTruthySpellings(v[1]) THEN "True" ELSE "False")
                ELSE v]
    ELSE DEFAULT_SETTINGS

\* the posted updates: a dict with any of the keys
Updates(keys, values) ==
    {u \in [Keys -> {None} \cup {Some(v) : v \in values}] :
        /\ \A k \in Keys \ keys : u[k] = None
        /\ \E k \in keys : u[k] # None
        /\ u["enable_timestamp"] \in {None, Some("True"), Some("False")}}

\* is_composition_mode of capture_high_quality_photo
IsCompositionMode(settings) ==
    Truthy(PyOr(Get(settings, "enable_multiple_exposure", "False"),
                Get(settings, "enable_2in1_composition", "False")))

\* camera_control.save_settings(new_settings): dict.update keeps the posted
\* values as they are
save_settings(new_settings) ==
    /\ settings_file' = [k \in Keys |->
                            IF new_settings[k] # None THEN new_settings[k]
                            ELSE ControlLoadSettings[k]]
    /\ file_exists' = TRUE
    /\ abandoned' = IF last_frame # None /\ ~IsCompositionMode(settings_file')
                    THEN abandoned \cup {last_frame[1]} ELSE abandoned
    /\ UNCHANGED <<detection_threshold, Picamera2>>
    /\ UNCHANGED detectorVars
    /\ UNCHANGED engineVars
    /\ UNCHANGED deviceVars
    /\ UNCHANGED composeVars
    /\ UNCHANGED cleanupVars
    /\ UNCHANGED cameraVars
    /\ UNCHANGED loopVars
    /\ UNCHANGED configVars

\* a load_settings that falls back to its defaults when the read fails
LoadSettings_DefaultsOnFailure(readOk) ==
    IF file_exists /\ readOk
    THEN [detection_threshold |-> Get(settings_file, "detection_threshold", 30),
          detection_interval |-> Get(settings_file, "detection_interval", 1),
          monitoring_enabled |-> Get(settings_file, "monitoring_enabled", "True")]
    ELSE [detection_threshold |-> 30, detection_interval |-> 1,
          monitoring_enabled |-> "True"]

\* a load_settings that keeps the values it has
LoadSettings_Cached(readOk) ==
    [detection_threshold |-> detection_threshold,
     detection_interval |-> detection_interval,
     monitoring_enabled |-> monitoring_enabled]

\* LightDetector.load_settings: the three values after the call; a read
\* failure or a missing file leaves them as they are (0.1 s is 1 tick)
LoadSettings(readOk) ==
    IF file_exists /\ readOk
    THEN [detection_threshold |-> Get(settings_file, "detection_threshold", 30),
          detection_interval |-> Get(settings_file, "detection_interval", 1),
          monitoring_enabled |-> Get(settings_file, "monitoring_enabled", "True")]
    ELSE [detection_threshold |-> detection_threshold,
          detection_interval |-> detection_interval,
          monitoring_enabled |-> monitoring_enabled]

load_settings(readOk) ==
    /\ file_exists
    /\ detection_threshold' = LoadSettings(readOk).detection_threshold
    /\ detection_interval' = LoadSettings(readOk).detection_interval
    /\ monitoring_enabled' = LoadSettings(readOk).monitoring_enabled
    /\ UNCHANGED <<Picamera2, file_exists, settings_file, abandoned>>
    /\ UNCHANGED detectorVars
    /\ UNCHANGED engineVars
    /\ UNCHANGED deviceVars
    /\ UNCHANGED composeVars
    /\ UNCHANGED cleanupVars
    /\ UNCHANGED cameraVars
    /\ UNCHANGED loopVars

\* ShutterTriggerSystem.load_camera_settings
load_camera_settings(readOk) ==
    IF file_exists
    THEN IF readOk THEN settings_file ELSE EmptyDict
    ELSE TriggerDefaults

\* ------------------------------------------------------------------------
\* LightDetector.detect_light_change as a step of the detector
\* ------------------------------------------------------------------------
ScenarioSamples == {30, 50, 52, 65, 79}
Samples == (0..MaxSample) \cup ScenarioSamples

detect_light_change(current) ==
    LET r == DetectLightChange(last_brightness, current, detection_threshold)
    IN  /\ last_brightness' = r.last_brightness
        /\ detect_call' = Some([last |-> last_brightness, current |-> current,
                                threshold |-> detection_threshold,
                                ret |-> r.ret])
        /\ UNCHANGED <<detection_threshold, Picamera2, file_exists, settings_file,
                       abandoned>>
        /\ UNCHANGED engineVars
        /\ UNCHANGED deviceVars
        /\ UNCHANGED composeVars
        /\ UNCHANGED cleanupVars
        /\ UNCHANGED cameraVars
        /\ UNCHANGED loopVars
        /\ UNCHANGED configVars

\* ------------------------------------------------------------------------
\* ShutterTriggerSystem.capture_high_quality_photo
\* ------------------------------------------------------------------------
\* f"Camera_{timestamp}_{random_id}<suffix>": id stands for the pair
\* timestamp, random_id
Filename(id, suffix) == [prefix |-> "Camera_", id |-> id, suffix |-> suffix]

\* the file name of the capture
ChooseFilename(is_composition_mode, pending, id) ==
    IF is_composition_mode /\ pending = None THEN Filename(id, "_1st.jpg")
    ELSE IF is_composition_mode /\ pending # None THEN Filename(id, "_2nd.jpg")
    ELSE Filename(id, ".jpg")

\* a base name that keeps the suffix of the first shot
BaseName_Keep1st(path) == path

\* os.path.basename(path).replace('_1st.jpg', '')
BaseName(path) ==
    IF path.suffix = "_1st.jpg" THEN [path EXCEPT !.suffix = ""] ELSE path

\* f"COMPOSITE_{base_name}.jpg"
CompositeName(base_name) ==
    [prefix |-> "COMPOSITE_" \o base_name.prefix, id |-> base_name.id,
     suffix |-> base_name.suffix \o ".jpg"]

\* The outcome of the image processing part of a capture: the return value,
\* the new pairing fields, the files created and removed, the frames combined
\* (used) or dropped by a composition error, and the branch taken.

\* a first shot that is reported as a photo
StoreFirst_ReturnsFile(frame, filepath) ==
    [ret |-> Some(filepath), last_frame |-> Some(frame),
     last_frame_path |-> Some(filepath),
     created |-> {}, removed |-> {}, used |-> None, dropped |-> {},
     branch |-> "first"]

\* first frame of a pair: keep it, no photo yet
StoreFirst(frame, filepath) ==
    [ret |-> None, last_frame |-> Some(frame), last_frame_path |-> Some(filepath),
     created |-> {}, removed |-> {}, used |-> None, dropped |-> {},
     branch |-> "first"]

\* the layout applied to the pair
Layout_TwoInOneOnly(settings) ==
    IF Truthy(Get(settings, "enable_2in1_composition", "False")) THEN "2in1"
    ELSE "none"

\* the layout applied to a pair (lines 193, 207)
Layout(settings) ==
    IF Truthy(Get(settings, "enable_2in1_composition", "False")) THEN "2in1"
    ELSE IF Truthy(Get(settings, "enable_multiple_exposure", "False")) THEN "blend"
    ELSE "none"

\* a composition whose error branch keeps the pending pair
Compose_KeepsPendingOnError(settings, pending, pending_path, frame, filepath, files, combineOk, removeFails) ==
    IF ~combineOk
    THEN [ret |-> None, last_frame |-> pending, last_frame_path |-> pending_path,
          created |-> {}, removed |-> {}, used |-> None,
          dropped |-> {pending[1], frame}, branch |-> "composition_error"]
    ELSE LET result_filename == CompositeName(BaseName(pending_path[1]))
         IN  [ret |-> Some(result_filename), last_frame |-> None,
              last_frame_path |-> None,
              created |-> {result_filename},
              removed |-> {pending_path[1], filepath},
              used |-> Some([first |-> pending[1], second |-> frame,
                             name |-> result_filename,
                             layout |-> Layout(settings)]),
              dropped |-> {}, branch |-> "composite"]

\* a composition that keeps the pending pair after the composite is written
Compose_KeepsPendingOnSuccess(settings, pending, pending_path, frame, filepath, files, combineOk, removeFails) ==
    IF ~combineOk
    THEN [ret |-> None, last_frame |-> None, last_frame_path |-> None,
          created |-> {}, removed |-> {}, used |-> None,
          dropped |-> {pending[1], frame}, branch |-> "composition_error"]
    ELSE LET result_filename == CompositeName(BaseName(pending_path[1]))
         IN  [ret |-> Some(result_filename), last_frame |-> pending,
              last_frame_path |-> pending_path,
              created |-> {result_filename},
              removed |-> {filepath},
              used |-> Some([first |-> pending[1], second |-> frame,
                             name |-> result_filename,
                             layout |-> Layout(settings)]),
              dropped |-> {}, branch |-> "composite"]

\* second frame of a pair: combine it with the pending one.
\* combineOk: resize, paste/blend, overlay and save raise nothing;
\* removeFails: 0 when both os.remove succeed, 1 or 2 when that one raises
Compose(settings, pending, pending_path, frame, filepath, files, combineOk, removeFails) ==
    IF ~combineOk
    THEN [ret |-> None, last_frame |-> None, last_frame_path |-> None,
          created |-> {}, removed |-> {}, used |-> None,
          dropped |-> {pending[1], frame}, branch |-> "composition_error"]
    ELSE IF Layout(settings) = "none"
    THEN [ret |-> None, last_frame |-> pending, last_frame_path |-> pending_path,
          created |-> {}, removed |-> {}, used |-> None, dropped |-> {},
          branch |-> "no_layout"]
    ELSE LET result_filename == CompositeName(BaseName(pending_path[1]))
             firstThere == pending_path[1] \in files
             rm1 == IF firstThere /\ removeFails # 1 THEN {pending_path[1]} ELSE {}
             rm2 == IF (firstThere /\ removeFails = 1) \/ removeFails = 2
                    THEN {} ELSE {filepath}
         IN  [ret |-> Some(result_filename), last_frame |-> None,
              last_frame_path |-> None,
              created |-> {result_filename}, removed |-> rm1 \cup rm2,
              used |-> Some([first |-> pending[1], second |-> frame,
                             name |-> result_filename,
                             layout |-> Layout(settings)]),
              dropped |-> {}, branch |-> "composite"]

\* normal single photo. stampOk: overlay and re-save raise nothing; when they
\* raise, the handler of the whole call resets last_frame
SinglePhoto(settings, filename, stampOk) ==
    IF Truthy(Get(settings, "enable_timestamp", "False")) /\ ~stampOk
    THEN [ret |-> None, last_frame |-> None, last_frame_path |-> None,
          created |-> {}, removed |-> {}, used |-> None, dropped |-> {},
          branch |-> "single_error"]
    ELSE [ret |-> Some(filename), last_frame |-> None, last_frame_path |-> None,
          created |-> {}, removed |-> {}, used |-> None, dropped |-> {},
          branch |-> "single"]

\* the image processing of a capture whose frame was read
ProcessFrame(settings, pending, pending_path, frame, filename, files, env) ==
    IF IsCompositionMode(settings)
    THEN IF pending = None THEN StoreFirst(frame, filename)
         ELSE Compose(settings, pending, pending_path, frame, filename, files,
                      env.combineOk, env.removeFails)
    ELSE SinglePhoto(settings, filename, env.stampOk)

\* an early return that resets the pairing fields
Aborted_ResetsPair(pending, pending_path, branch) ==
    [ret |-> None, last_frame |-> None, last_frame_path |-> None,
     created |-> {}, removed |-> {}, used |-> None, dropped |-> {},
     branch |-> branch]

\* a call that ends before the frame is read: return None, nothing touched
Aborted(pending, pending_path, branch) ==
    [ret |-> None, last_frame |-> pending, last_frame_path |-> pending_path,
     created |-> {}, removed |-> {}, used |-> None, dropped |-> {},
     branch |-> branch]

\* a handler of the whole call that resets nothing (the frame of the pending
\* path is still the pending frame)
OuterExcept_KeepsFrame(pending_path, branch) ==
    [ret |-> None,
     last_frame |-> IF pending_path = None THEN None
                    ELSE Some([id |-> pending_path[1].id]),
     last_frame_path |-> pending_path,
     created |-> {}, removed |-> {}, used |-> None, dropped |-> {},
     branch |-> branch]

\* an exception caught by the handler of the whole call: only last_frame is
\* reset
OuterExcept(pending_path, branch) ==
    [ret |-> None, last_frame |-> None, last_frame_path |-> pending_path,
     created |-> {}, removed |-> {}, used |-> None, dropped |-> {},
     branch |-> branch]

\* ------------------------------------------------------------------------
\* The camera handle of LightDetector.  A handle is the number of the
\* Picamera2 object; owners is the set of handles that have acquired the
\* device and have not closed it.  The device is exclusive: Picamera2()
\* raises while another handle holds it.
\* ------------------------------------------------------------------------
\* what the library does during one call
\* release: stop() and close() return, stop() raises (close() is then not
\*   called), or close() raises;
\* freed: the device of a handle that is discarded without a completed
\*   close() is released all the same (the object is finalised) or stays held;
\* init: Picamera2(), configure() and start() return, Picamera2() raises,
\*   or configure()/start() raises after the handle acquired the device
CameraEnvs ==
    [release : {"ok", "stop_raised", "close_raised"}, freed : BOOLEAN,
     init : {"ok", "create_raised", "setup_raised"}]
\* the environment of a re-initialisation that runs or fails as a whole
InitEnv(initOk) ==
    [release |-> "ok", freed |-> TRUE,
     init |-> IF initOk THEN "ok" ELSE "create_raised"]

\* LightDetector.release_camera: the owners after the call (picam2 is None
\* after it in every case)
ReleaseCamera(cam, own, env) ==
    IF cam = None THEN own
    ELSE IF env.release = "ok" \/ env.freed THEN own \ {cam[1]}
    ELSE own

\* LightDetector._initialize_picamera
InitializePicamera(cam, own, seq, env) ==
    LET released == ReleaseCamera(cam, own, env)
        busy == released # {}
        id == seq + 1
    IN  IF busy \/ env.init = "create_raised"
        THEN [picam2 |-> None, owners |-> released, handle_seq |-> seq,
              ret |-> FALSE, opened_busy |-> busy, created |-> FALSE]
        ELSE IF env.init = "setup_raised"
        THEN [picam2 |-> None,
              owners |-> IF env.freed THEN released ELSE released \cup {id},
              handle_seq |-> id,
              ret |-> FALSE, opened_busy |-> FALSE, created |-> TRUE]
        ELSE [picam2 |-> Some(id), owners |-> released \cup {id},
              handle_seq |-> id,
              ret |-> TRUE, opened_busy |-> FALSE, created |-> TRUE]

\* an open_camera that initialises the stream again on every call
OpenCamera_Reinitialises(cam, own, seq, lib, env) ==
    IF lib THEN InitializePicamera(cam, own, seq, env)
    ELSE [picam2 |-> cam, owners |-> own, handle_seq |-> seq,
          ret |-> FALSE, opened_busy |-> FALSE, created |-> FALSE]

\* LightDetector.open_camera: with the library and no handle the stream is
\* initialised, which may fail; with a handle start() is called and True is
\* returned whether it raises or not
OpenCamera(cam, own, seq, lib, env) ==
    IF lib /\ cam = None THEN InitializePicamera(cam, own, seq, env)
    ELSE [picam2 |-> cam, owners |-> own, handle_seq |-> seq,
          ret |-> lib, opened_busy |-> FALSE, created |-> FALSE]

\* the handle, the device and the handle count, as the calls record them
CameraState == [picam2 |-> picam2, owners |-> owners, handle_seq |-> handle_seq]
CameraCall(op, r) ==
    Some([op |-> op, before |-> CameraState,
          after |-> [picam2 |-> r.picam2, owners |-> r.owners,
                     handle_seq |-> r.handle_seq],
          ret |-> r.ret, created |-> r.created])
\* the record of the fallback branch of a capture: the camera while the
\* external command runs, and after the open_camera that follows it
FallbackCall(during, r, initOk) ==
    Some([op |-> "capture_fallback", before |-> CameraState,
          during |-> during,
          after |-> [picam2 |-> r.picam2, owners |-> r.owners,
                     handle_seq |-> r.handle_seq],
          ret |-> r.ret, created |-> r.created, init_ok |-> initOk])
CameraUnchanged ==
    UNCHANGED <<last_brightness, detection_threshold, last_frame,
                last_frame_path, Picamera2, file_exists, settings_file, photos,
                capture_seq, detect_call, capture_call, composites, discarded,
                pair_open, abandoned, compose_call, mtime, cleanup_call,
                detection_interval, monitoring_enabled, last_capture_time,
                running, pc, last_cleanup_time, last_stats_time, now,
                iterations, iteration, last_sample_time>>

\* LightDetector.open_camera
\* (a step that is not reached in a call has its environment fixed)
open_camera(env) ==
    /\ env.release = "ok"
    /\ env.init # "setup_raised" => env.freed
    /\ IF Picamera2 /\ picam2 = None
       THEN handle_seq < MaxHandles
       ELSE env.init = "ok"
    /\ LET r == OpenCamera(picam2, owners, handle_seq, Picamera2, env)
       IN  /\ picam2' = r.picam2
           /\ owners' = r.owners
           /\ handle_seq' = r.handle_seq
           /\ opened_busy' = (opened_busy \/ r.opened_busy)
           /\ camera_call' = CameraCall("open_camera", r)
    /\ CameraUnchanged

\* LightDetector.release_camera
release_camera(env) ==
    /\ env.init = "ok"
    /\ env.release = "ok" => env.freed
    /\ picam2 = None => env.release = "ok"
    /\ LET r == [picam2 |-> None,
                 owners |-> ReleaseCamera(picam2, owners, env),
                 handle_seq |-> handle_seq, ret |-> TRUE, created |-> FALSE]
       IN  /\ picam2' = r.picam2
           /\ owners' = r.owners
           /\ camera_call' = CameraCall("release_camera", r)
    /\ UNCHANGED <<handle_seq, opened_busy>>
    /\ CameraUnchanged

\* LightDetector._initialize_picamera (called with the library present)
initialize_picamera(env) ==
    /\ Picamera2
    /\ handle_seq < MaxHandles
    /\ picam2 = None => env.release = "ok"
    /\ (env.release = "ok" /\ env.init # "setup_raised") => env.freed
    /\ LET r == InitializePicamera(picam2, owners, handle_seq, env)
       IN  /\ picam2' = r.picam2
           /\ owners' = r.owners
           /\ handle_seq' = r.handle_seq
           /\ opened_busy' = (opened_busy \/ r.opened_busy)
           /\ camera_call' = CameraCall("_initialize_picamera", r)
    /\ CameraUnchanged

\* an open_camera that follows the try statement of the command instead of
\* being its finally clause
Reopens_OnReturnOnly(command) == command # "raise"

\* finally: self.detector.open_camera() runs however the command ended
Reopens(command) == TRUE

\* what the environment does during one call
\* (a step that is not reached in a call has its value fixed)
CaptureEnvs ==
    {env \in [readOk : BOOLEAN, capture : {"ok", "nonzero", "raise"},
              initOk : BOOLEAN, imageOk : BOOLEAN, combineOk : BOOLEAN,
              removeFails : 0..2, stampOk : BOOLEAN] :
        /\ env.capture # "ok" => env.imageOk
        /\ ~env.imageOk => env.combineOk /\ env.stampOk
        /\ ~env.combineOk => env.removeFails = 0 /\ env.stampOk
        /\ env.removeFails # 0 => env.stampOk}

\* the call on the engine's state
Capture(env) ==
    /\ capture_seq < MaxCaptures
    /\ env.readOk \/ file_exists
    /\ picam2 # None => env.capture # "nonzero" /\ env.initOk
    /\ (picam2 = None /\ Picamera2) => handle_seq < MaxHandles
    /\ ~Picamera2 => env.initOk
    /\ LET settings == load_camera_settings(env.readOk)
           id == capture_seq + 1
           filename == ChooseFilename(IsCompositionMode(settings), last_frame, id)
           frame == [id |-> id]
           fast == picam2 # None
           captured == env.capture = "ok"
           released == [picam2 |-> None,
                        owners |-> ReleaseCamera(picam2, owners, InitEnv(TRUE)),
                        handle_seq |-> handle_seq]
           reopened == IF Reopens(env.capture)
                       THEN OpenCamera(released.picam2, released.owners,
                                       released.handle_seq, Picamera2,
                                       InitEnv(env.initOk))
                       ELSE [picam2 |-> released.picam2,
                             owners |-> released.owners,
                             handle_seq |-> released.handle_seq,
                             ret |-> FALSE, opened_busy |-> FALSE,
                             created |-> FALSE]
           r == IF ~captured
                THEN IF fast \/ env.capture = "nonzero"
                     THEN Aborted(last_frame, last_frame_path,
                                  IF fast THEN "capture_failed"
                                  ELSE "command_failed")
                     ELSE OuterExcept(last_frame_path, "capture_raised")
                ELSE IF ~env.imageOk
                THEN Aborted(last_frame, last_frame_path, "read_failed")
                ELSE ProcessFrame(settings, last_frame, last_frame_path, frame,
                                  filename, photos \cup {filename}, env)
           combines == captured /\ env.imageOk /\ IsCompositionMode(settings)
                         /\ last_frame # None
           stamps == captured /\ env.imageOk /\ ~IsCompositionMode(settings)
                       /\ Truthy(Get(settings, "enable_timestamp", "False"))
       IN  \* steps that are not reached have their environment fixed
           /\ ~combines => env.combineOk
           /\ (~combines \/ Layout(settings) = "none") => env.removeFails = 0
           /\ ~stamps => env.stampOk
           /\ capture_seq' = id
           /\ picam2' = IF fast THEN picam2 ELSE reopened.picam2
           /\ owners' = IF fast THEN owners ELSE reopened.owners
           /\ handle_seq' = IF fast THEN handle_seq ELSE reopened.handle_seq
           /\ opened_busy' = (opened_busy \/ (~fast /\ reopened.opened_busy))
           /\ camera_call' = IF fast THEN camera_call
                             ELSE FallbackCall(released, reopened,
                                               Picamera2 /\ env.initOk
                                                 /\ released.owners = {})
           /\ last_frame' = r.last_frame
           /\ last_frame_path' = r.last_frame_path
           /\ photos' = (((IF captured THEN photos \cup {filename} ELSE photos)
                          \cup r.created) \ r.removed)
           /\ mtime' = [f \in photos' |->
                           IF (captured /\ f = filename) \/ f \in r.created
                           THEN id ELSE mtime[f]]
           /\ composites' = IF r.used = None THEN composites
                            ELSE composites \cup {r.used[1]}
           /\ discarded' = discarded \cup r.dropped
           /\ abandoned' = IF r.last_frame = last_frame \/ r.used # None
                           THEN abandoned
                           ELSE {f \in abandoned : Some(f) # last_frame}
           /\ pair_open' = IF r.branch = "first" THEN TRUE
                           ELSE IF r.branch \in {"capture_failed", "command_failed",
                                                 "read_failed",
                                                 "no_layout"}
                           THEN pair_open
                           ELSE FALSE
           /\ capture_call' = Some([documented_on |->
                                       \E k \in CompositionKeys :
                                          InTruthySpellings(Get(settings, k, "False")),
                                    is_composition_mode |-> IsCompositionMode(settings),
                                    pending |-> last_frame,
                                    pending_path |-> last_frame_path,
                                    filename |-> filename,
                                    frame |-> frame,
                                    frame_read |-> captured /\ env.imageOk,
                                    raised |-> r.branch \in
                                        {"capture_raised", "composition_error",
                                         "single_error"},
                                    branch |-> r.branch,
                                    removeFails |-> IF r.branch = "composite"
                                                    THEN env.removeFails ELSE 0,
                                    ret |-> r.ret])

capture_high_quality_photo(env) ==
    /\ Capture(env)
    /\ UNCHANGED <<detection_threshold, Picamera2, file_exists, settings_file>>
    /\ UNCHANGED detectorVars
    /\ UNCHANGED composeVars
    /\ UNCHANGED cleanupVars
    /\ UNCHANGED loopVars
    /\ UNCHANGED configVars

\* ------------------------------------------------------------------------
\* The combination of two frames (lines 189-213), on the sizes
\* <<width, height>> of the images
\* ------------------------------------------------------------------------
\* int(x) for a double x >= 0: the integer part
PyInt(x) ==
    IF x.m = <<>> THEN 0
    ELSE IF x.e >= 0 THEN BitsToInt(x.m) * (2 ^ x.e)
    ELSE IF Len(x.m) + x.e <= 0 THEN 0
    ELSE BitsToInt(SubSeq(x.m, 1, Len(x.m) + x.e))

\* min(h1, h2)
Min(a, b) == IF a <= b THEN a ELSE b

\* Image.resize(size): the result has the size asked for; a width or height
\* below 1 raises ValueError (None here)
Resize(img, size) == IF size[1] >= 1 /\ size[2] >= 1 THEN Some(size) ELSE None

\* Image.blend(im1, im2, alpha): the images must have the same size (it
\* raises ValueError otherwise, None here); the result has that size
Blend(im1, im2) == IF im1 = im2 THEN Some(im1) ELSE None

\* Image.new('RGB', size) with the two resized frames pasted side by side
SideBySide(left, right, height) == Some(<<left[1] + right[1], height>>)

\* a 2-in-1 layout that scales both frames to the larger height
TwoInOne_MaxHeight(img1, img2) ==
    LET target_h == IF img1[2] >= img2[2] THEN img1[2] ELSE img2[2]
        img1_resized ==
            Resize(img1, <<PyInt(FDiv(img1[1] * target_h, img1[2])), target_h>>)
        img2_resized ==
            Resize(img2, <<PyInt(FDiv(img2[1] * target_h, img2[2])), target_h>>)
    IN  IF img1_resized = None \/ img2_resized = None THEN None
        ELSE SideBySide(img1_resized[1], img2_resized[1], target_h)

\* 2-in-1: both frames scaled to the smaller height, side by side
TwoInOne(img1, img2) ==
    LET target_h == Min(img1[2], img2[2])
        img1_resized ==
            Resize(img1, <<PyInt(FDiv(img1[1] * target_h, img1[2])), target_h>>)
        img2_resized ==
            Resize(img2, <<PyInt(FDiv(img2[1] * target_h, img2[2])), target_h>>)
    IN  IF img1_resized = None \/ img2_resized = None THEN None
        ELSE SideBySide(img1_resized[1], img2_resized[1], target_h)

\* multi-exposure: the second frame scaled to the first, blended
MultipleExposure(img1, img2) ==
    LET img2_resized == Resize(img2, img1)
    IN  IF img2_resized = None THEN None ELSE Blend(img1, img2_resized[1])

\* composite_img: None when the combination raises or no layout applies
CompositeImg(settings, img1, img2) ==
    IF Layout(settings) = "2in1" THEN TwoInOne(img1, img2)
    ELSE IF Layout(settings) = "blend" THEN MultipleExposure(img1, img2)
    ELSE None

\* sizes of the frames the camera delivers: the stream (1280x720), the
\* default of the trigger's settings (1920x1080) and the default of the
\* fallback command (1640x1232)
CameraSizes == {<<1280, 720>>, <<1920, 1080>>, <<1640, 1232>>}
Sizes == ((1..MaxDim) \X (1..MaxDim)) \cup CameraSizes

\* the flag is enabled as the settings document it
DocumentedOn(settings, key) == InTruthySpellings(Get(settings, key, "False"))

\* the combination applied to a pending frame img1 and a second frame img2
\* under the settings read for the capture
compose(img1, img2) ==
    LET settings == load_camera_settings(TRUE)
    IN  /\ IsCompositionMode(settings)
        /\ compose_call' =
              Some([two_in_one |-> DocumentedOn(settings, "enable_2in1_composition"),
                    multiple_exposure |->
                        DocumentedOn(settings, "enable_multiple_exposure"),
                    layout |-> Layout(settings),
                    img1 |-> img1, img2 |-> img2,
                    composite_img |-> CompositeImg(settings, img1, img2)])
        /\ UNCHANGED <<detection_threshold, Picamera2, file_exists, settings_file,
                       abandoned>>
        /\ UNCHANGED detectorVars
        /\ UNCHANGED engineVars
        /\ UNCHANGED deviceVars
        /\ UNCHANGED cleanupVars
        /\ UNCHANGED cameraVars
        /\ UNCHANGED loopVars
        /\ UNCHANGED configVars

\* ------------------------------------------------------------------------
\* ShutterTriggerSystem.cleanup_old_photos
\* ------------------------------------------------------------------------
\* filename.lower().endswith(('.jpg', '.jpeg', '.png', '.txt'))
IsPhotoFile(f) == f.suffix \in {".jpg", "_1st.jpg", "_2nd.jpg"}

\* the order of the file names as strings: 'O' < 'a' puts COMPOSITE_Camera_
\* before Camera_, and '.' < '_' puts .jpg before _1st.jpg before _2nd.jpg
PrefixRank(f) == IF f.prefix = "Camera_" THEN 1 ELSE 0
SuffixRank(f) == IF f.suffix = ".jpg" THEN 0 ELSE IF f.suffix = "_1st.jpg" THEN 1 ELSE 2
PathLess(f, g) ==
    \/ PrefixRank(f) < PrefixRank(g)
    \/ /\ PrefixRank(f) = PrefixRank(g)
       /\ \/ f.id < g.id
          \/ f.id = g.id /\ SuffixRank(f) < SuffixRank(g)

\* (mtime, filepath, filename) tuples compare by mtime, then by path
TupleLess(f, g, mt) == mt[f] < mt[g] \/ (mt[f] = mt[g] /\ PathLess(f, g))

\* photos.sort(): the listing in ascending order
Sorted(files, mt) ==
    [i \in 1..Cardinality(files) |->
        CHOOSE f \in files :
            Cardinality({g \in files : TupleLess(g, f, mt)}) = i - 1]

\* seq[:-max_photos]: the stop index -0 is 0, so the slice is empty for
\* max_photos = 0
SliceToMinus(seq, max_photos) ==
    IF max_photos = 0 THEN <<>>
    ELSE SubSeq(seq, 1, Len(seq) - max_photos)

\* the files cleanup_old_photos(max_photos) tries to remove
ToDelete(files, mt, max_photos) ==
    LET listing == Sorted({f \in files : IsPhotoFile(f)}, mt)
    IN  IF Len(listing) > max_photos
        THEN {SliceToMinus(listing, max_photos)[i] :
                 i \in 1..Len(SliceToMinus(listing, max_photos))}
        ELSE {}

\* undeletable: the files whose os.remove raises (logged, the loop over
\* to_delete goes on)
cleanup_old_photos(max_photos, undeletable) ==
    LET to_delete == ToDelete(photos, mtime, max_photos)
    IN  /\ photos' = photos \ (to_delete \ undeletable)
        /\ mtime' = [f \in photos' |-> mtime[f]]
        /\ cleanup_call' = Some([max_photos |-> max_photos,
                                 before |-> photos,
                                 mtime |-> mtime,
                                 remove_failed |-> to_delete \cap undeletable # {}])
        /\ UNCHANGED <<detection_threshold, Picamera2, file_exists, settings_file,
                       abandoned>>
        /\ UNCHANGED <<last_frame, last_frame_path, picam2, capture_seq,
                       capture_call, composites, discarded, pair_open>>
        /\ UNCHANGED detectorVars
        /\ UNCHANGED composeVars
        /\ UNCHANGED loopVars
        /\ UNCHANGED configVars
        /\ UNCHANGED deviceVars
        /\ UNCHANGED cameraVars

\* ------------------------------------------------------------------------
\* ShutterTriggerSystem.run and signal_handler
\* Time is counted in ticks of 0.1 s.
\* ------------------------------------------------------------------------
\* the clock reading when run() starts (last_capture_time starts at 0)
StartTime == 100
\* cleanup_interval = 3600 and stats_interval = 300 seconds
cleanup_interval == 36000
stats_interval == 3000
\* time.sleep(1.0) while monitoring is disabled, time.sleep(0.1) while the
\* gate is closed, time.sleep(1) after a missing frame
SleepDisabled == 10
SleepGateClosed == 1
SleepNoFrame == 10

\* a gate that is always open
ShouldCapture_Always(time, last, interval) == TRUE

\* LightDetector.should_capture
ShouldCapture(time, last, interval) == (time - last) >= interval

\* a gate timestamp that is never set
UpdateCaptureTime_Never(time) == 0

\* LightDetector.update_capture_time: last_capture_time = time.time()
UpdateCaptureTime(time) == time

\* a loop that ignores the running flag
WhileRunning_Forever(flag) == TRUE

\* while self.running
WhileRunning(flag) == flag

\* signal_handler: only the flag is cleared
signal_handler ==
    /\ running' = FALSE
    /\ UNCHANGED <<last_capture_time, pc, last_cleanup_time, last_stats_time,
                   now, iterations, iteration, last_sample_time>>
    /\ UNCHANGED <<detection_threshold, Picamera2, file_exists, settings_file,
                   abandoned>>
    /\ UNCHANGED detectorVars
    /\ UNCHANGED engineVars
    /\ UNCHANGED deviceVars
    /\ UNCHANGED composeVars
    /\ UNCHANGED cleanupVars
    /\ UNCHANGED cameraVars
    /\ UNCHANGED configVars

\* the test of the while loop: start an iteration, or leave the loop and
\* return from run()
loop_test ==
    /\ pc = "while"
    /\ WhileRunning(running) => iterations < MaxIterations
    /\ pc' = IF WhileRunning(running) THEN "iteration" ELSE "returned"
    /\ iterations' = IF WhileRunning(running) THEN iterations + 1 ELSE iterations
    /\ UNCHANGED <<last_capture_time, running, last_cleanup_time, last_stats_time,
                   now, iteration, last_sample_time>>
    /\ UNCHANGED <<detection_threshold, Picamera2, file_exists, settings_file,
                   abandoned>>
    /\ UNCHANGED detectorVars
    /\ UNCHANGED engineVars
    /\ UNCHANGED deviceVars
    /\ UNCHANGED composeVars
    /\ UNCHANGED cleanupVars
    /\ UNCHANGED cameraVars
    /\ UNCHANGED configVars

\* brightness of the detection frames of the loop
LoopSamples == {30, 50}
\* time that passes in an iteration before its sleep (a capture, a blocked
\* call, or the clock being set): nothing, or more than the cleanup interval
LongDelay == cleanup_interval + 1

\* the captures of the loop: the command succeeds, returns non-zero or raises
LoopCaptureEnvs ==
    {env \in CaptureEnvs :
        /\ env.readOk /\ env.initOk /\ env.imageOk /\ env.combineOk
        /\ env.removeFails = 0 /\ env.stampOk}
NoCaptureEnv == CHOOSE env \in LoopCaptureEnvs : env.capture = "ok"

\* what the environment does during one iteration
\* (a step that is not reached in an iteration has its value fixed)
\* frame: None or the brightness of the frame capture_frame returns;
\* brightnessOk: calculate_brightness raises nothing;
\* statsOk: get_system_stats returns the stats and not {}
LoopEnvs ==
    {env \in [readOk : BOOLEAN,
              frame : {None} \cup {Some(b) : b \in LoopSamples},
              brightnessOk : BOOLEAN, capture : LoopCaptureEnvs,
              elapsed : {0, LongDelay}, statsOk : BOOLEAN] :
        /\ env.frame = None => env.brightnessOk
        /\ (env.frame = None \/ ~env.brightnessOk)
             => env.capture = NoCaptureEnv /\ env.elapsed = 0
        /\ env.elapsed = 0 => env.statsOk}

\* a loop that also ends when no detection frame could be taken
Raised_MissingFrameFatal(path, stats_raised) ==
    path \in {"brightness_raised", "no_frame"} \/ stats_raised

\* an exception leaves the iteration: calculate_brightness raised, or the
\* stats report raised
Raised(path, stats_raised) == path = "brightness_raised" \/ stats_raised

\* a loop that captures after every sample
LightChanged_EverySample(sampled, ret) == sampled

\* if light_changed: the detector returned True for the sample taken
LightChanged(sampled, ret) == sampled /\ ret

\* the path one iteration takes
IterationPath(settings, time, env) ==
    IF ~Truthy(settings.monitoring_enabled) THEN "disabled"
    ELSE IF ~ShouldCapture(time, last_capture_time, settings.detection_interval)
    THEN "gate_closed"
    ELSE IF env.frame = None THEN "no_frame"
    ELSE IF ~env.brightnessOk THEN "brightness_raised"
    ELSE "sampled"

\* one iteration of the loop, from load_settings to the final sleep.
\* cleanup_old_photos() runs with max_photos = 1000 and removes nothing from
\* the at most MaxCaptures files of a run.  An exception that leaves the
\* iteration leaves the loop: the try statement encloses the while.
iteration_body(env) ==
    /\ pc = "iteration"
    /\ env.readOk \/ file_exists
    /\ LET settings == LoadSettings(env.readOk)
           path == IterationPath(settings, now, env)
           sampled == path = "sampled"
           d == DetectLightChange(last_brightness, env.frame[1],
                                  settings.detection_threshold)
           light_changed == LightChanged(sampled, d.ret)
           current_time == now + env.elapsed
           cleanup_due == sampled /\ current_time - last_cleanup_time > cleanup_interval
           stats_due == sampled /\ current_time - last_stats_time > stats_interval
           stats_raised == stats_due /\ ~env.statsOk
           raised == Raised(path, stats_raised)
       IN  \* steps that are not reached have their environment fixed
           /\ path \in {"disabled", "gate_closed"} => env.frame = None
           /\ path # "brightness_raised" => env.brightnessOk
           /\ ~light_changed => env.capture = NoCaptureEnv
           /\ ~stats_due => env.statsOk
           /\ detection_threshold' = settings.detection_threshold
           /\ detection_interval' = settings.detection_interval
           /\ monitoring_enabled' = settings.monitoring_enabled
           /\ IF sampled
              THEN /\ last_brightness' = d.last_brightness
                   /\ detect_call' = Some([last |-> last_brightness,
                                           current |-> env.frame[1],
                                           threshold |-> settings.detection_threshold,
                                           ret |-> d.ret])
                   /\ last_capture_time' = UpdateCaptureTime(now)
                   /\ last_sample_time' = Some(now)
              ELSE UNCHANGED <<last_brightness, detect_call, last_capture_time,
                               last_sample_time>>
           /\ IF light_changed THEN Capture(env.capture)
              ELSE UNCHANGED <<engineVars, abandoned, deviceVars, cameraVars>>
           /\ last_cleanup_time' = IF cleanup_due THEN current_time
                                   ELSE last_cleanup_time
           /\ last_stats_time' = IF stats_due /\ ~stats_raised THEN current_time
                                 ELSE last_stats_time
           /\ now' = IF path = "disabled" THEN current_time + SleepDisabled
                     ELSE IF path = "gate_closed"
                     THEN current_time + SleepGateClosed
                     ELSE IF path = "no_frame" THEN current_time + SleepNoFrame
                     ELSE IF raised THEN current_time
                     ELSE current_time + settings.detection_interval
           /\ pc' = IF raised THEN "returned" ELSE "while"
           /\ iteration' = Some([path |-> path,
                                 settings_read |-> file_exists /\ env.readOk,
                                 capture_read_failed |->
                                     light_changed /\ ~env.capture.readOk,
                                 stopping |-> ~running,
                                 interval |-> settings.detection_interval,
                                 gate_reached |->
                                     now - last_capture_time
                                        >= settings.detection_interval,
                                 resampled |-> sampled /\ last_sample_time # None,
                                 spaced |->
                                     \/ ~sampled \/ last_sample_time = None
                                     \/ now - last_sample_time[1]
                                           >= settings.detection_interval,
                                 light_changed |-> light_changed,
                                 cleanup_ran |-> cleanup_due,
                                 stats_ran |-> stats_due,
                                 raised |-> raised])
    /\ UNCHANGED <<running, iterations>>
    /\ UNCHANGED <<Picamera2, file_exists, settings_file>>
    /\ UNCHANGED composeVars
    /\ UNCHANGED cleanupVars

\* the settings a client posts for the detector
Intervals == {1, TicksPerSecond}
LoopUpdates ==
    {[k \in Keys |-> IF k = "monitoring_enabled" THEN m
                     ELSE IF k = "detection_interval" THEN i
                     ELSE None] :
        m \in {None, Some("True"), Some("False")},
        i \in {None} \cup {Some(v) : v \in Intervals}} \ {EmptyDict}

\* ------------------------------------------------------------------------
\* Specifications
\* ------------------------------------------------------------------------
Init ==
    /\ last_brightness = None
    /\ Picamera2 \in BOOLEAN
    /\ picam2 \in (IF Picamera2 THEN {None, Some(1)} ELSE {None})
    /\ handle_seq = (IF picam2 = None THEN 0 ELSE 1)
    /\ owners = (IF picam2 = None THEN {} ELSE {1})
    /\ opened_busy = FALSE
    /\ camera_call = None
    /\ last_frame = None
    /\ last_frame_path = None
    /\ file_exists \in BOOLEAN
    /\ settings_file = DEFAULT_SETTINGS
    /\ detection_threshold = 30
    /\ photos = {}
    /\ capture_seq = 0
    /\ detect_call = None
    /\ capture_call = None
    /\ composites = {}
    /\ discarded = {}
    /\ pair_open = FALSE
    /\ abandoned = {}
    /\ compose_call = None
    /\ mtime = [f \in {} |-> 0]
    /\ cleanup_call = None
    /\ detection_interval = (IF file_exists THEN TicksPerSecond ELSE 1)
    /\ monitoring_enabled = "True"
    /\ last_capture_time = 0
    /\ running = TRUE
    /\ pc = "while"
    /\ now = StartTime
    /\ last_cleanup_time = StartTime
    /\ last_stats_time = StartTime
    /\ iterations = 0
    /\ iteration = None
    /\ last_sample_time = None

\* the installation without the Picamera2 library (every capture runs the
\* external command) and with a settings file
InitFallback == Init /\ ~Picamera2 /\ file_exists

\* the loop while a client posts the detector's settings and a composition
\* flag
FreshUpdates ==
    {[k \in Keys |-> IF k = "monitoring_enabled" THEN m
                     ELSE IF k = "detection_interval" THEN i
                     ELSE IF k = "detection_threshold" THEN t
                     ELSE IF k = "enable_2in1_composition" THEN c
                     ELSE None] :
        m \in {None, Some("True"), Some("False")},
        i \in {None, Some(1)},
        t \in {None, Some(58)},
        c \in {None, Some("True")}} \ {EmptyDict}

NextFresh ==
    \/ loop_test
    \/ \E env \in LoopEnvs : iteration_body(env)
    \/ \E u \in FreshUpdates : save_settings(u)

SpecFresh == Init /\ [][NextFresh]_vars

\* ------------------------------------------------------------------------
\* The loop while the settings file is rewritten: the reads of
\* load_settings (line 341) and of load_camera_settings (line 101) fail or
\* succeed independently of each other
\* ------------------------------------------------------------------------
ConfigCaptureEnvs ==
    {env \in CaptureEnvs :
        env.initOk /\ env.imageOk /\ env.combineOk /\ env.removeFails = 0}

ConfigEnvs ==
    {env \in [readOk : BOOLEAN,
              frame : {None} \cup {Some(b) : b \in LoopSamples},
              brightnessOk : {TRUE}, capture : ConfigCaptureEnvs,
              elapsed : {0}, statsOk : {TRUE}] :
        env.frame = None => env.capture = NoCaptureEnv}

InitConfig == Init /\ file_exists

NextConfig ==
    \/ loop_test
    \/ \E env \in ConfigEnvs : iteration_body(env)
    \/ \E u \in FreshUpdates : save_settings(u)

SpecConfig == InitConfig /\ [][NextConfig]_vars

\* ------------------------------------------------------------------------
\* The loop over long periods: time passes in any iteration while the
\* client switches the monitoring on and off
\* ------------------------------------------------------------------------
RetentionEnvs ==
    {env \in [readOk : {TRUE},
              frame : {None} \cup {Some(b) : b \in LoopSamples},
              brightnessOk : {TRUE}, capture : LoopCaptureEnvs,
              elapsed : {0, LongDelay}, statsOk : {TRUE}] :
        env.frame = None => env.capture = NoCaptureEnv}

RetentionUpdates ==
    {[k \in Keys |-> IF k = "monitoring_enabled" THEN Some(m) ELSE None] :
        m \in {"True", "False"}}

NextRetention ==
    \/ loop_test
    \/ \E env \in RetentionEnvs : iteration_body(env)
    \/ \E u \in RetentionUpdates : save_settings(u)

SpecRetention == InitConfig /\ [][NextRetention]_vars

\* the camera handle opened, released and initialised at arbitrary moments
\* between captures
NextCamera ==
    \/ \E env \in CameraEnvs : open_camera(env)
    \/ \E env \in CameraEnvs : release_camera(env)
    \/ \E env \in CameraEnvs : initialize_picamera(env)
    \/ \E env \in LoopCaptureEnvs : capture_high_quality_photo(env)

SpecCamera == Init /\ [][NextCamera]_vars

\* the change detector fed with arbitrary samples while the threshold is
\* changed in the settings store
NextDetector ==
    \/ \E c \in Samples : detect_light_change(c)
    \/ \E readOk \in BOOLEAN : load_settings(readOk)
    \/ \E u \in Updates({"detection_threshold"}, Thresholds) : save_settings(u)

SpecDetector == Init /\ [][NextDetector]_vars

\* the posted updates of the flags.  save_settings merges the update into
\* the settings as load_settings normalises them, so an update that leaves a
\* flag out stores what the update that posts its normalised value stores:
\* the updates that post all three flags give every store an update gives
FlagUpdates ==
    {u \in Updates(FlagKeys, FlagValues) : \A k \in FlagKeys : u[k] # None}

\* the capture engine called at arbitrary moments while the flags are
\* changed in the settings store
Next ==
    \/ \E env \in CaptureEnvs : capture_high_quality_photo(env)
    \/ \E u \in FlagUpdates : save_settings(u)

Spec == Init /\ [][Next]_vars

\* two frames of arbitrary sizes combined while the flags are changed in the
\* settings store
NextCompose ==
    \/ \E img1 \in Sizes, img2 \in Sizes : compose(img1, img2)
    \/ \E u \in Updates(CompositionKeys, FlagValues) : save_settings(u)

SpecCompose == InitFallback /\ [][NextCompose]_vars

\* photos written by captures and removed by cleanup_old_photos called with
\* arbitrary max_photos
NextCleanup ==
    \/ \E env \in CaptureEnvs : capture_high_quality_photo(env)
    \/ \E max_photos \in 0..MaxKeep, undeletable \in SUBSET photos :
          Cardinality(undeletable) <= 1 /\ cleanup_old_photos(max_photos, undeletable)

SpecCleanup == Init /\ [][NextCleanup]_vars

\* the loop of run() with signals arriving and the detector's settings
\* changed at arbitrary moments
NextLoop ==
    \/ signal_handler
    \/ loop_test
    \/ \E env \in LoopEnvs : iteration_body(env)
    \/ \E u \in LoopUpdates : save_settings(u)

SpecLoop == Init /\ [][NextLoop]_vars

\* run() is the only thread of the process: it keeps taking its steps
SpecLoopFair ==
    /\ InitFallback /\ [][NextLoop]_vars
    /\ WF_vars(loop_test)
    /\ WF_vars(\E env \in LoopEnvs : iteration_body(env))

\* ------------------------------------------------------------------------
\* Properties of the change detector (SpecDetector)
\* ------------------------------------------------------------------------
Detected == detect_call # None
Call == detect_call[1]
NotFirst == Detected /\ Call.last # None
Delta == Call.current - Call.last[1]

\* the percent increase delta / last * 100 (delta * 100 from a baseline of
\* 0) is at least t, in exact arithmetic
ExactPercentReached(delta, last, t) ==
    IF last > 0 THEN 100 * delta >= t * last ELSE 100 * delta >= t

\* C1: a non-first sample whose increase is at least 5 and whose percent
\* increase is at least the threshold (equality included) returns True
C1_FiresWhenBothReached ==
    (NotFirst /\ Delta >= 5
        /\ ExactPercentReached(Delta, Call.last[1], Call.threshold))
    => Call.ret = TRUE

\* C2: noise floor: an increase strictly between 0 and 5 never fires,
\* whatever the percent increase and the threshold
C2_NoiseFloor ==
    (NotFirst /\ 0 < Delta /\ Delta < 5) => Call.ret = FALSE

C2_Witness ==
    /\ NotFirst /\ Call.last = Some(0) /\ Call.current \in 1..4
    /\ Call.threshold = 0 /\ Call.ret = FALSE

\* C3: a sample that is not brighter than the previous one returns False and
\* becomes the new baseline
C3_DarkeningOrEqual ==
    (NotFirst /\ Call.current <= Call.last[1])
    => (Call.ret = FALSE /\ last_brightness = Some(Call.current))

C3_Witness ==
    /\ NotFirst /\ Call.last = Some(50) /\ Call.current = 30
    /\ Call.ret = FALSE /\ last_brightness = Some(30)

\* C4: the first sample returns False and seeds last_brightness
C4_FirstSample ==
    (Detected /\ Call.last = None)
    => (Call.ret = FALSE /\ last_brightness = Some(Call.current))

C4_Witness ==
    /\ Detected /\ Call.last = None /\ Call.current = 79 /\ Call.threshold = 0
    /\ Call.ret = FALSE /\ last_brightness = Some(79)

\* C5: after every call last_brightness is the sample of that call
C5_BaselineIsLastSample ==
    Detected => last_brightness = Some(Call.current)

C5_Witness ==
    /\ NotFirst /\ Call.last = Some(50) /\ Call.current = 52
    /\ Call.ret = FALSE /\ last_brightness = Some(52)

\* ------------------------------------------------------------------------
\* Properties of the capture engine (Spec)
\* ------------------------------------------------------------------------
Captured == capture_call # None
Shot == capture_call[1]
Idle == last_frame = None /\ last_frame_path = None

\* composition mode as the engine would read it from the store now
CompositionOnInStore == IsCompositionMode(load_camera_settings(TRUE))

\* C6: a pending first frame exists iff composition mode is enabled in the
\* settings and a first-of-pair capture awaits its second capture
C6_PendingIffCompositionPair ==
    (last_frame # None) <=> (CompositionOnInStore /\ pair_open)

\* C7: composition mode on, no pending frame, frame captured and read: the
\* frame and its path become the pending first frame, nothing is returned
\* and no other file carries the name of this shot
C7_FirstShotStored ==
    (Captured /\ Shot.documented_on /\ Shot.pending = None /\ Shot.frame_read)
    => /\ Shot.ret = None
       /\ last_frame = Some(Shot.frame)
       /\ last_frame_path = Some(Shot.filename)
       /\ Shot.filename = [prefix |-> "Camera_", id |-> Shot.frame.id,
                           suffix |-> "_1st.jpg"]
       /\ \A f \in photos : f.id = Shot.frame.id => f = Shot.filename
       /\ \A c \in composites : Shot.frame \notin {c.first, c.second}

C7_Witness ==
    /\ Captured /\ Shot.documented_on /\ Shot.pending = None /\ Shot.frame_read
    /\ Shot.ret = None /\ last_frame = Some(Shot.frame)

\* the second shot of a pair was captured and read and the combination
\* raised nothing
SecondShotCombined ==
    /\ Captured /\ Shot.documented_on /\ Shot.pending # None
    /\ Shot.frame_read /\ ~Shot.raised

\* COMPOSITE_<base>.jpg for the first shot Camera_<id>_1st.jpg
ExpectedComposite ==
    [prefix |-> "COMPOSITE_Camera_", id |-> Shot.pending_path[1].id,
     suffix |-> ".jpg"]

CompositeReturned ==
    /\ Shot.pending_path # None
    /\ Shot.pending_path[1].suffix = "_1st.jpg"
    /\ Shot.ret = Some(ExpectedComposite)
    /\ ExpectedComposite \in photos
    /\ Idle

C9_SinglePhotoWhenOff ==
    (Captured /\ ~Shot.documented_on /\ Shot.frame_read /\ ~Shot.raised)
    => /\ Shot.ret = Some([prefix |-> "Camera_", id |-> Shot.frame.id,
                           suffix |-> ".jpg"])
       /\ Idle

\* C10: a combination that raises returns no photo and leaves the engine
\* Idle, and no frame of the failed pair is pending or part of a composite
C10_CompositionErrorDiscardsPair ==
    /\ (Captured /\ Shot.branch = "composition_error")
         => Shot.ret = None /\ Idle
    /\ \A f \in discarded :
         /\ last_frame # Some(f)
         /\ \A c \in composites : f \notin {c.first, c.second}

C10_Witness ==
    /\ Captured /\ Shot.branch = "composition_error" /\ Shot.pending # None
    /\ Shot.pending[1] \in discarded /\ Idle

\* C11: a frame that was pending when composition mode was switched off in
\* the settings is never the first frame of a composite
C11_AbandonedNeverCombined ==
    \A c \in composites : c.first \notin abandoned

\* the capture ended before a frame was read: the command failed or the
\* captured file could not be read
CaptureFailed ==
    /\ Captured
    /\ Shot.branch \in {"capture_failed", "command_failed", "capture_raised",
                       "read_failed"}

\* C12 as stated: a failed capture returns no photo and leaves last_frame and
\* last_frame_path exactly as they were before the call
C12_FailureKeepsState ==
    CaptureFailed
    => /\ Shot.ret = None
       /\ last_frame = Shot.pending
       /\ last_frame_path = Shot.pending_path

\* C12 amended: a failed capture returns no photo; last_frame and
\* last_frame_path are what they were before the call unless the fallback
\* command raised, and then no frame is pending
C12_FailureKeepsStateUnlessRaised ==
    CaptureFailed
    => /\ Shot.ret = None
       /\ Shot.branch # "capture_raised"
            => last_frame = Shot.pending /\ last_frame_path = Shot.pending_path
       /\ Shot.branch = "capture_raised"
            => last_frame = None

C12_Witness ==
    /\ CaptureFailed /\ Shot.branch = "capture_failed"
    /\ Shot.pending # None /\ Shot.ret = None
    /\ last_frame = Shot.pending /\ last_frame_path = Shot.pending_path

\* the fallback command failed while a first frame was pending
FallbackFailedMidPair ==
    /\ Captured /\ Shot.branch \in {"command_failed", "capture_raised"}
    /\ Shot.pending # None

\* C13 as stated: a fallback command that fails mid-pair is reported as no
\* photo and leaves the engine Idle
C13_FallbackFailureDiscardsPair ==
    FallbackFailedMidPair => Shot.ret = None /\ Idle

\* C13 amended: a fallback command that fails mid-pair is reported as no
\* photo; when it raised no frame is pending any more, when it returned
\* non-zero the pending pair is kept
C13_FallbackRaiseDiscardsNonzeroKeeps ==
    FallbackFailedMidPair
    => /\ Shot.ret = None
       /\ Shot.branch = "capture_raised" => last_frame = None
       /\ Shot.branch = "command_failed"
            => /\ last_frame = Shot.pending
               /\ last_frame_path = Shot.pending_path
               /\ Shot.pending[1] \notin discarded

C13_Witness ==
    /\ FallbackFailedMidPair /\ Shot.branch = "capture_raised"
    /\ Shot.ret = None /\ last_frame = None

\* the frames of a composite
FramesOf(c) == {c.first, c.second}

\* C14: a composition that completed or failed leaves no pending frame, the
\* next capture in composition mode that is read becomes a new first frame
\* and returns nothing; no frame is part of two composites and no frame of
\* a finished or failed pair is pending or combined again
C14_FreshPairAfterComposition ==
    /\ (Captured /\ Shot.branch \in {"composite", "composition_error"})
         => last_frame = None
    /\ (Captured /\ Shot.is_composition_mode /\ Shot.frame_read
            /\ Shot.pending = None)
         => /\ Shot.branch = "first" /\ Shot.ret = None
            /\ last_frame = Some(Shot.frame)
    /\ \A c \in composites :
         /\ c.first # c.second
         /\ last_frame \notin {Some(c.first), Some(c.second)}
         /\ \A d \in composites : d # c => FramesOf(c) \cap FramesOf(d) = {}
         /\ FramesOf(c) \cap discarded = {}
    /\ \A f \in discarded : last_frame # Some(f)

C14_Witness ==
    /\ composites # {}
    /\ Captured /\ Shot.is_composition_mode /\ Shot.frame_read
    /\ Shot.branch = "first" /\ Shot.frame.id = 3
    /\ last_frame = Some(Shot.frame)
    /\ \A c \in composites : Shot.frame \notin FramesOf(c)

\* ------------------------------------------------------------------------
\* Properties of the combination (SpecCompose)
\* ------------------------------------------------------------------------
Composed == compose_call # None
Pair == compose_call[1]

\* C15: with 2-in-1 enabled the composite (none is made when a resize
\* raises) is min(h1,h2) high and
\* floor(w1*min(h1,h2)/h1) + floor(w2*min(h1,h2)/h2) wide
C15_TwoInOneSize ==
    (Composed /\ Pair.two_in_one)
    => LET w1 == Pair.img1[1]
           h1 == Pair.img1[2]
           w2 == Pair.img2[1]
           h2 == Pair.img2[2]
           m == IF h1 <= h2 THEN h1 ELSE h2
       IN  Pair.composite_img # None
           => Pair.composite_img =
                 Some(<<((w1 * m) \div h1) + ((w2 * m) \div h2), m>>)

C15_Witness ==
    /\ Composed /\ Pair.two_in_one
    /\ Pair.img1 = <<1280, 720>> /\ Pair.img2 = <<1920, 1080>>
    /\ Pair.composite_img = Some(<<2560, 720>>)

\* C16: with multi-exposure enabled and 2-in-1 not enabled the composite has
\* the width and height of the first frame
C16_MultipleExposureSize ==
    (Composed /\ Pair.multiple_exposure /\ ~Pair.two_in_one)
    => Pair.composite_img = Some(Pair.img1)

\* ------------------------------------------------------------------------
\* Properties of the retention (SpecCleanup)
\* ------------------------------------------------------------------------
Cleaned == cleanup_call # None
Cleanup == cleanup_call[1]

\* C17: N files stored, 0 <= max_photos = M < N, no removal raised: exactly
\* M files remain, every file that remains is newer than every file that
\* was deleted
C17_KeepsNewest ==
    (Cleaned /\ Cleanup.max_photos < Cardinality(Cleanup.before)
        /\ ~Cleanup.remove_failed /\ photos \subseteq Cleanup.before
        /\ \A f \in photos : mtime[f] = Cleanup.mtime[f])
    => /\ Cardinality(photos) = Cleanup.max_photos
       /\ \A kept \in photos, deleted \in Cleanup.before \ photos :
             Cleanup.mtime[deleted] <= Cleanup.mtime[kept]

\* ------------------------------------------------------------------------
\* Properties of the loop (SpecLoop, SpecLoopFair)
\* ------------------------------------------------------------------------
Iterated == iteration # None
Iter == iteration[1]

\* C18: the loop ends only when the running flag has been cleared
C18_LoopEndsOnlyWhenStopped ==
    pc = "returned" => ~running

\* C19: once running is cleared no iteration is started; the signal
\* handler changes nothing but the flag, so the iteration in flight goes on
\* as it would have; and run() returns
C19_StopsAfterSignal ==
    /\ [][(pc = "while" /\ ~running) => pc' # "iteration"]_vars
    /\ [][(running /\ ~running')
            => /\ pc' = pc /\ iterations' = iterations /\ now' = now
               /\ UNCHANGED <<engineVars, detectorVars, configVars>>]_vars
    /\ (~running) ~> (pc = "returned")

C19_Witness ==
    /\ pc = "returned" /\ ~running
    /\ Iterated /\ Iter.stopping /\ Iter.path = "sampled"
    /\ Iter.light_changed /\ ~Iter.raised
    /\ Captured /\ Shot.ret # None

\* C20: a detection frame is asked for only when now - last_capture_time
\* has reached the interval in effect in that iteration, and a sample is at
\* least that interval after the sample before it
C20_GateSpacesSamples ==
    Iterated
    => /\ Iter.path \in {"no_frame", "brightness_raised", "sampled"}
            => Iter.gate_reached
       /\ Iter.spaced

C20_Witness ==
    /\ Iterated /\ Iter.path = "sampled" /\ Iter.resampled
    /\ Iter.interval = TicksPerSecond /\ Iter.gate_reached /\ Iter.spaced

\* an iteration ends: the step of iteration_body
IterationEnds == pc = "iteration" /\ pc' # "iteration"

\* C21: every iteration that passes the gate (whatever becomes of the frame,
\* the sample and the capture) sets last_capture_time to the time of the
\* attempt
C21_StampedOnEveryAttempt ==
    [][(IterationEnds
          /\ iteration'[1].path \in {"no_frame", "brightness_raised", "sampled"})
        => last_capture_time' = now]_vars

\* C21, amended: every iteration that takes a brightness sample sets
\* last_capture_time, whether or not an event was detected and whether or
\* not the capture succeeded; an attempt that ends without a sample leaves
\* it as it was
C21_StampedOnEverySample ==
    [][IterationEnds
        => IF iteration'[1].path = "sampled"
           THEN last_capture_time' = now
           ELSE last_capture_time' = last_capture_time]_vars

C21_Witness ==
    /\ Iterated /\ Iter.path = "sampled" /\ Iter.light_changed
    /\ Captured /\ Shot.ret = None
    /\ last_sample_time = Some(last_capture_time)
    /\ last_capture_time > StartTime

\* ------------------------------------------------------------------------
\* Properties of the camera handle (SpecCamera)
\* ------------------------------------------------------------------------
CameraCalled == camera_call # None
Cam == camera_call[1]

\* C22: at most one handle holds the device, and Picamera2() is never
\* called while a handle that was not fully released still holds it
C22_SingleOwner ==
    /\ Cardinality(owners) <= 1
    /\ ~opened_busy

\* C23: open_camera called with a handle returns True and leaves the
\* handle, the device and the number of handles as they were
C23_OpenIsIdempotent ==
    (CameraCalled /\ Cam.op = "open_camera" /\ Cam.before.picam2 # None)
    => /\ Cam.ret
       /\ Cam.after = Cam.before
       /\ ~Cam.created

C23_Witness ==
    /\ CameraCalled /\ Cam.op = "open_camera"
    /\ Cam.before.picam2 = Some(2) /\ picam2 = Some(2)
    /\ Cam.ret /\ owners = {2} /\ handle_seq = 2

\* C24: after release_camera the handle is discarded and no longer holds
\* the device; the open_camera that follows it and returns True has made a
\* new handle on a free device
C24_ReleaseClosesDevice ==
    /\ (CameraCalled /\ Cam.op = "release_camera" /\ Cam.before.picam2 # None)
        => /\ Cam.after.picam2 = None
           /\ Cam.before.picam2[1] \notin Cam.after.owners
    /\ (CameraCalled /\ Cam.op = "open_camera" /\ Cam.before.picam2 = None
          /\ Cam.ret)
        => /\ Cam.created /\ Cam.before.owners = {}
           /\ Cam.after.picam2 = Some(Cam.before.handle_seq + 1)

\* ------------------------------------------------------------------------
\* Freshness of the settings (SpecFresh)
\* ------------------------------------------------------------------------
\* C25: an iteration that reads the settings file works with the values the
\* file holds when the iteration starts (monitoring flag, threshold,
\* interval), and a capture taken in it decides composition mode from the
\* flags the file holds then
C25_SettingsReadFresh ==
    [][(IterationEnds /\ iteration'[1].settings_read)
        => /\ detection_threshold'
                = Get(settings_file, "detection_threshold", 30)
           /\ detection_interval'
                = Get(settings_file, "detection_interval", 1)
           /\ monitoring_enabled'
                = Get(settings_file, "monitoring_enabled", "True")
           /\ iteration'[1].interval = detection_interval'
           /\ (iteration'[1].path = "disabled")
                <=> ~Truthy(Get(settings_file, "monitoring_enabled", "True"))
           /\ iteration'[1].path = "sampled"
                => detect_call'[1].threshold
                     = Get(settings_file, "detection_threshold", 30)
           /\ capture_seq' # capture_seq
                => capture_call'[1].is_composition_mode
                     = IsCompositionMode(settings_file)]_vars

C25_Witness ==
    /\ Iterated /\ Iter.settings_read /\ Iter.path = "sampled"
    /\ Iter.light_changed /\ Iter.interval = 1
    /\ detection_threshold = 58 /\ Detected /\ Call.threshold = 58
    /\ Captured /\ Shot.is_composition_mode /\ Shot.branch = "first"

\* ------------------------------------------------------------------------
\* Feature flags (Spec)
\* ------------------------------------------------------------------------
\* C26: the settings loader takes a flag as enabled exactly when its stored
\* value is True or a truthy spelling, and the capture engine decides
\* composition mode by the same rule
C26_EnabledIffTruthySpelling ==
    /\ file_exists
         => \A k \in FlagKeys :
               (ControlLoadSettings[k] = Some("True"))
                 <=> InTruthySpellings(Get(settings_file, k, "False"))
    /\ Captured => (Shot.is_composition_mode <=> Shot.documented_on)

\* ------------------------------------------------------------------------
\* The two conditions of the change detector (SpecDetector)
\* ------------------------------------------------------------------------
\* C27: a non-first sample fires if and only if its increase is at least 5
\* and its percent increase is at least the threshold; in particular an
\* increase of 5 or more whose percent increase is below the threshold
\* does not fire
C27_FiresIffBothReached ==
    NotFirst
    => (Call.ret = TRUE
          <=> (Delta >= 5
                 /\ ExactPercentReached(Delta, Call.last[1], Call.threshold)))

\* C28: from a baseline of 0 the percent increase is current * 100: the
\* sample fires exactly when current >= 5 and current * 100 >= threshold
C28_ZeroBaseline ==
    (NotFirst /\ Call.last = Some(0))
    => (Call.ret = TRUE
          <=> (Call.current >= 5 /\ Call.current * 100 >= Call.threshold))

C28_Witness ==
    /\ NotFirst /\ Call.last = Some(0) /\ Call.current = 5
    /\ Call.threshold = 600 /\ Call.ret = FALSE

\* ------------------------------------------------------------------------
\* Iterations with and without a sample (SpecLoop)
\* ------------------------------------------------------------------------
\* C29: an iteration that ends without a brightness sample (monitoring
\* disabled, gate closed, no detection frame) leaves last_brightness,
\* last_capture_time and the composition state as they were, takes no
\* capture, and the loop goes back to its test
C29_NoSampleNoEffect ==
    [][(IterationEnds
          /\ iteration'[1].path \in {"disabled", "gate_closed", "no_frame"})
        => /\ UNCHANGED <<last_brightness, last_capture_time, last_frame,
                          last_frame_path>>
           /\ UNCHANGED <<capture_seq, capture_call, photos>>
           /\ pc' = "while"]_vars

C29_Witness ==
    /\ Iterated /\ Iter.path = "no_frame" /\ pc = "while" /\ running
    /\ last_brightness = Some(30) /\ last_sample_time = Some(last_capture_time)
    /\ ~Captured

\* C30: an iteration calls capture_high_quality_photo exactly when it took
\* a sample for which detect_light_change returned True, once, and the gate
\* timestamp then carries the time of that sample and not the time after
\* the capture
C30_CaptureIffLightChanged ==
    [][IterationEnds
        => /\ (capture_seq' # capture_seq)
                <=> (iteration'[1].path = "sampled" /\ detect_call'[1].ret)
           /\ capture_seq' \in {capture_seq, capture_seq + 1}
           /\ capture_seq' # capture_seq
                => last_capture_time' = now]_vars

C30_Witness ==
    /\ Iterated /\ Iter.path = "sampled" /\ Iter.light_changed
    /\ Detected /\ Call.ret = TRUE /\ Call.last = Some(30) /\ Call.current = 50
    /\ capture_seq = 1 /\ Captured /\ Shot.ret # None
    /\ now >= last_capture_time + LongDelay

\* ------------------------------------------------------------------------
\* The camera around the external capture command (SpecCamera)
\* ------------------------------------------------------------------------
\* a step of capture_high_quality_photo
CaptureStep == capture_seq' # capture_seq

\* C31: a capture takes the fallback branch exactly when no handle is
\* present; no handle is held while the command runs; open_camera runs
\* after it however the command ended, and makes a new handle whenever the
\* initialisation succeeds.  A capture on the fast path leaves the camera
\* as it is
C31_ReleasedDuringCommandReopenedAfter ==
    [][CaptureStep
        => IF picam2 = None
           THEN /\ camera_call'[1].op = "capture_fallback"
                /\ camera_call'[1].during.picam2 = None
                /\ camera_call'[1].after.picam2 = picam2'
                /\ camera_call'[1].ret <=> picam2' # None
                /\ camera_call'[1].init_ok
                     => /\ picam2' = Some(handle_seq + 1)
                        /\ owners' = {handle_seq + 1}
                /\ capture_call'[1].branch # "capture_failed"
           ELSE /\ UNCHANGED <<picam2, owners, handle_seq, camera_call>>
                /\ capture_call'[1].branch
                     \notin {"command_failed", "capture_raised"}]_vars

C31_Witness ==
    /\ Captured /\ Shot.branch = "capture_raised" /\ capture_seq = 1
    /\ CameraCalled /\ Cam.op = "capture_fallback" /\ Cam.init_ok
    /\ Cam.before.picam2 = None /\ Cam.during.picam2 = None
    /\ picam2 = Some(Cam.before.handle_seq + 1) /\ owners = {picam2[1]}

\* C32: the suffix of the file name of a capture is _1st exactly when
\* composition mode is on and no frame is pending, _2nd exactly when it is on
\* and a frame is pending, and empty exactly when it is off; a capture whose
\* frame is read then stores the first frame, combines the pair, or saves a
\* single photo accordingly
C32_SuffixEncodesKind ==
    Captured
      => /\ Shot.filename.suffix = "_1st.jpg"
              <=> (Shot.documented_on /\ Shot.pending = None)
         /\ Shot.filename.suffix = "_2nd.jpg"
              <=> (Shot.documented_on /\ Shot.pending # None)
         /\ Shot.filename.suffix = ".jpg" <=> ~Shot.documented_on
         /\ Shot.frame_read
              => Shot.branch
                   \in (CASE Shot.filename.suffix = "_1st.jpg" -> {"first"}
                          [] Shot.filename.suffix = "_2nd.jpg"
                               -> {"composite", "composition_error"}
                          [] OTHER -> {"single", "single_error"})

\* the engine waits for the second frame of a pair
AwaitingSecond(frame) == frame # None

\* C33: a capture made while a first frame is pending, and whose frame is
\* read, ends in a composite, a combination error or a single photo, and
\* leaves no pending frame and no pending path
C33_SecondCaptureLeavesIdle ==
    (Captured /\ AwaitingSecond(Shot.pending) /\ Shot.frame_read)
      => /\ Shot.branch \in {"composite", "composition_error",
                              "single", "single_error"}
         /\ Idle

C33_Witness ==
    /\ Captured /\ AwaitingSecond(Shot.pending) /\ Shot.frame_read
    /\ Shot.branch = "single" /\ ~Shot.is_composition_mode /\ Idle
    /\ Shot.pending_path # None /\ capture_seq = 2

\* C36: last_frame is None exactly when last_frame_path is None
C36_PairingFieldsAgree ==
    (last_frame = None) <=> (last_frame_path = None)

\* C37: a capture whose frame is read while composition mode is on and a
\* frame is pending ends in a composite or a composition error; the
\* composite has the 2-in-1 layout when enable_2in1_composition is enabled
\* and the blend otherwise
C37_ExactlyOneLayout ==
    [][(CaptureStep /\ capture_call'[1].documented_on
          /\ capture_call'[1].frame_read /\ last_frame # None)
        => /\ capture_call'[1].branch \in {"composite", "composition_error"}
           /\ capture_call'[1].branch = "composite"
                => \E c \in composites' \ composites :
                      c.layout = IF DocumentedOn(settings_file,
                                                 "enable_2in1_composition")
                                 THEN "2in1" ELSE "blend"]_vars

\* C34: an iteration whose read of the settings fails leaves the three
\* values of the detector as they were and goes on to the next loop test; a
\* capture whose read of the settings fails works on the defaults of its
\* .get calls: composition mode off, no timestamp overlay, a plain file
\* name, and the capture ends as a capture with those settings does
C34_ReadFailureKeepsValuesAndDefaults ==
    [][IterationEnds
        => /\ pc' = "while"
           /\ ~iteration'[1].settings_read
                => UNCHANGED <<detection_threshold, detection_interval,
                               monitoring_enabled>>
           /\ iteration'[1].capture_read_failed
                => /\ capture_seq' = capture_seq + 1
                   /\ ~capture_call'[1].is_composition_mode
                   /\ capture_call'[1].filename.suffix = ".jpg"
                   /\ capture_call'[1].branch # "single_error"
                   /\ capture_call'[1].frame_read
                        => /\ capture_call'[1].branch = "single"
                           /\ capture_call'[1].ret
                                = Some(capture_call'[1].filename)
                           /\ last_frame' = None
                           /\ last_frame_path' = None]_vars

C34_Witness ==
    /\ Iterated /\ ~Iter.settings_read /\ Iter.capture_read_failed
    /\ file_exists /\ CompositionOnInStore
    /\ detection_threshold = 30 /\ monitoring_enabled = "True"
    /\ settings_file["detection_threshold"] = Some(58)
    /\ settings_file["monitoring_enabled"] = Some("False")
    /\ Captured /\ Shot.branch = "single" /\ ~Shot.is_composition_mode
    /\ pc = "while" /\ iterations = 2

\* C35: an iteration that starts more than the cleanup interval after the
\* previous cleanup, and after which the loop goes on, invokes
\* cleanup_old_photos, whether or not the monitoring is enabled and whether
\* or not a frame is sampled
C35_CleanupWheneverDue ==
    [][(IterationEnds /\ pc' = "while"
          /\ now - last_cleanup_time > cleanup_interval)
        => /\ iteration'[1].cleanup_ran
           /\ last_cleanup_time' >= now]_vars

====
